---- MODULE Spec2Model ----
(***************************************************************************)
(* Model of the polaris evaluation harness:                                *)
(*   - DiffusionPolicyClient (policy/diffusion_policy_client.py): the      *)
(*     action-chunked inference client, specification Spec;                *)
(*   - PolarisTrajectoryRecorder (trajectory_recorder.py): the episode     *)
(*     recorder, specification SpecRecorder;                               *)
(*   - the rubrics registered in environments/__init__.py and their        *)
(*     evaluation, specification SpecRubric.                               *)
(* Numbers stand for floats in hundredths (50 is 0.50, 100 is 1.0).        *)
(***************************************************************************)
EXTENDS Integers, Sequences, FiniteSets, TLC

VARIABLES
    \* DiffusionPolicyClient
    args,                          \* args.open_loop_horizon as given to __init__
    metadata,                      \* client.get_server_metadata() at construction
    open_loop_horizon,             \* self.open_loop_horizon
    actions_from_chunk_completed,  \* self.actions_from_chunk_completed
    pred_action_chunk,             \* self.pred_action_chunk
    clientOp,                      \* the last public call made on the client
    last,                          \* what that call did and how it ended
    allOk,                         \* every infer() since construction / reset()
                                   \* got past preprocessing, and every request
                                   \* was answered with at least
                                   \* open_loop_horizon actions
    inferCalls,                    \* while allOk: infer() calls since then
    requests,                      \* while allOk: inference requests sent
    answer,                        \* what the latest answered inference request
                                   \* since construction / reset() carried:
                                   \* "actions", "null", or "none" so far
    servedSince,                   \* infer() calls that returned an action since
                                   \* the latest call that took the query branch
                                   \* (that call included), 0 after reset()
    \* PolarisTrajectoryRecorder
    is_recording,                  \* self.is_recording
    episode_count,                 \* self.episode_count
    current_episode,               \* self.current_episode
    episode_data,                  \* self.episode_data
    file,                          \* the groups of the HDF5 file at self.filepath
    starts,                        \* the episodes started so far
    recOp,                         \* the last public call made on the recorder
    recOutcome,                    \* how that call ended
    \* Rubric
    env,                           \* the id of the registered environment
    baseline,                      \* per criterion: the height a lift measures
                                   \* from, once it has one
    sim_state,                     \* what the last evaluate() saw, per criterion
    rubric_result,                 \* the RubricResult of the last evaluate()
    prevSuccess,                   \* success of the evaluate() before the last
    rubricOp                       \* the last call made on the rubric

clientVars == <<args, metadata, open_loop_horizon, actions_from_chunk_completed,
                pred_action_chunk, clientOp, last, allOk, inferCalls,
                requests, answer, servedSince>>

recVars == <<is_recording, episode_count, current_episode, episode_data, file,
             starts, recOp, recOutcome>>

rubricVars == <<env, baseline, sim_state, rubric_result, prevSuccess, rubricOp>>

vars == <<args, metadata, open_loop_horizon, actions_from_chunk_completed,
          pred_action_chunk, clientOp, last, allOk, inferCalls, requests,
          answer, servedSince, is_recording, episode_count, current_episode,
          episode_data, file, starts, recOp, recOutcome, env, baseline,
          sim_state, rubric_result, prevSuccess, rubricOp>>

----------------------------------------------------------------------------
(* Bounds *)

\* largest horizon given in args.open_loop_horizon
MaxHorizon == 3

\* largest n_action_steps the server advertises
MaxSteps == 3

\* longest chunk a server sends, the two chunks of the default horizon apart
MaxChunk == 4

\* longest run of infer() calls followed call by call
MaxCalls == 10

----------------------------------------------------------------------------
(* Values *)

Min(a, b) == IF a <= b THEN a ELSE b

Max(a, b) == IF a >= b THEN a ELSE b

\* the horizon used when args.open_loop_horizon is None
DefaultHorizon == 8

\* the gripper threshold, 0.5
GripperThreshold == 50

\* np.ones((1,)) and np.zeros((1,))
GripperOpen == 0

GripperClosed == 100

\* float32 values are the even numbers; a float64 value in between is rounded
\* to the nearest one, ties to the one with the even mantissa
AsFloat32(v) ==
    LET lo == v - (v % 2)
    IN  IF v % 2 = 0 THEN v
        ELSE IF (lo \div 2) % 2 = 0 THEN lo ELSE lo + 2

\* python's None for the optional chunk, and a received one
NoChunk == [present |-> FALSE, actions |-> <<>>]

SomeChunk(as) == [present |-> TRUE, actions |-> as]

\* the action vectors a server sends: joint values, then the gripper value
ServerActions == <<(<<10, 49>>), (<<33, 50>>), (<<10, 51>>), (<<32, 100>>)>>

\* a chunk of n actions, the first one being ServerActions[first]
Chunk(n, first) ==
    [i \in 1..n |-> ServerActions[((first + i - 2) % Len(ServerActions)) + 1]]

\* server_response["actions"]: a sequence of action vectors, or null
Responses ==
    {SomeChunk(Chunk(n, f)) : n \in 0..MaxChunk, f \in 1..Len(ServerActions)}
        \cup {SomeChunk(Chunk(DefaultHorizon, 1)),
              SomeChunk(Chunk(DefaultHorizon + 1, 2))}
        \cup {NoChunk}

\* args.open_loop_horizon: None or a number
ArgsHorizons ==
    {[isNone |-> TRUE, value |-> 0]}
        \cup {[isNone |-> FALSE, value |-> h] : h \in 0..MaxHorizon}

\* get_server_metadata(): falsy, without n_action_steps, or with it
Metadatas ==
    {[present |-> FALSE, hasSteps |-> FALSE, n_action_steps |-> 0],
     [present |-> TRUE, hasSteps |-> FALSE, n_action_steps |-> 0]}
        \cup {[present |-> TRUE, hasSteps |-> TRUE, n_action_steps |-> n] :
                 n \in 0..MaxSteps}

----------------------------------------------------------------------------
(* DiffusionPolicyClient *)

\* __init__: the horizon taken from args
ConfiguredHorizon(a) == IF a.isNone THEN DefaultHorizon ELSE a.value

\* a constructor that ignores the server's n_action_steps
InitHorizonUnclamped(a, m) == ConfiguredHorizon(a)

\* __init__: ... clamped by the server's n_action_steps
InitHorizon(a, m) ==
    IF m.present /\ m.hasSteps
    THEN Min(ConfiguredHorizon(a), m.n_action_steps)
    ELSE ConfiguredHorizon(a)

\* a rerender that turns true one call late
rerenderLate(completed, horizon) == completed = 0 \/ completed > horizon

\* the rerender property
rerender(completed, horizon) == completed = 0 \/ completed >= horizon

\* a query test that lets one more action out of the chunk
NeedsQueryLate(completed, horizon) == completed = 0 \/ completed > horizon

\* a query test that looks for a missing chunk instead of a counter of 0
NeedsQueryWhenNoChunk(completed, horizon) ==
    ~pred_action_chunk.present \/ completed >= horizon

\* infer(): "do we need to query the server"
NeedsQuery(completed, horizon) == completed = 0 \/ completed >= horizon

\* a binarization that closes the gripper at the threshold itself
BinarizeInclusive(action) ==
    LET n == Len(action)
        g == IF action[n] >= GripperThreshold THEN GripperClosed ELSE GripperOpen
    IN  [i \in 1..n |-> AsFloat32(IF i = n THEN g ELSE action[i])]

\* infer(): binarize the gripper, cast the vector to float32
Binarize(action) ==
    LET n == Len(action)
        g == IF action[n] > GripperThreshold THEN GripperClosed ELSE GripperOpen
    IN  [i \in 1..n |-> AsFloat32(IF i = n THEN g ELSE action[i])]

NoAction == <<>>

\* what a call reports: how it ended, whether infer() took the query branch,
\* whether the request left and was answered, the action returned and its
\* index in the chunk, whether a visualization came with it, the counter and
\* the rerender property before the call, whether the reset notification raised
NoCall == [outcome |-> "none", refill |-> FALSE, requested |-> FALSE,
           answered |-> FALSE, action |-> NoAction, index |-> 0, viz |-> FALSE,
           before |-> 0, rerenderBefore |-> FALSE, notifyFailed |-> FALSE]

\* the observations given to infer(): well formed, lacking a key that
\* _extract_observation reads, or with an image resize_with_pad rejects
Observations == {"ok", "bad_keys", "bad_image"}

\* infer(): _extract_observation raises, in the query branch before the
\* counter is reset, or when the visualization is built outside it
ExtractFailed(completed, chunk, base) ==
    [completed |-> completed, chunk |-> chunk,
     res |-> [base EXCEPT !.outcome = "PreprocessError"]]

\* infer(): resize_with_pad raises, after the counter was reset
ResizeFailed(chunk, base) ==
    [completed |-> 0, chunk |-> chunk,
     res |-> [base EXCEPT !.outcome = "PreprocessError"]]

\* a failed request that leaves no chunk behind
RequestFailedDropsChunk(chunk, base) ==
    [completed |-> 0, chunk |-> NoChunk,
     res |-> [base EXCEPT !.outcome = "TransportError", !.requested = TRUE]]

\* infer(): client.infer(request_data) raises
RequestFailed(chunk, base) ==
    [completed |-> 0, chunk |-> chunk,
     res |-> [base EXCEPT !.outcome = "TransportError", !.requested = TRUE]]

\* an infer() that counts the action it serves twice
ServeActionCountsTwice(completed, chunk, base) ==
    IF ~chunk.present
    THEN [completed |-> completed, chunk |-> chunk,
          res |-> [base EXCEPT !.outcome = "ValueError"]]
    ELSE IF completed + 1 > Len(chunk.actions)
    THEN [completed |-> completed, chunk |-> chunk,
          res |-> [base EXCEPT !.outcome = "IndexError"]]
    ELSE [completed |-> completed + 2, chunk |-> chunk,
          res |-> [base EXCEPT !.outcome = "returned",
                               !.action = Binarize(chunk.actions[completed + 1]),
                               !.index = completed]]

\* infer(): "get current action from chunk", with the counter and the chunk
\* the query branch left
ServeAction(completed, chunk, base) ==
    IF ~chunk.present
    THEN [completed |-> completed, chunk |-> chunk,
          res |-> [base EXCEPT !.outcome = "ValueError"]]
    ELSE IF completed + 1 > Len(chunk.actions)
    THEN [completed |-> completed, chunk |-> chunk,
          res |-> [base EXCEPT !.outcome = "IndexError"]]
    ELSE [completed |-> completed + 1, chunk |-> chunk,
          res |-> [base EXCEPT !.outcome = "returned",
                               !.action = Binarize(chunk.actions[completed + 1]),
                               !.index = completed]]

\* infer(): "generate visualization if requested but not already created",
\* then the action, outside the query branch
ServeWithViz(completed, chunk, obs, return_viz, base) ==
    IF return_viz /\ obs # "ok"
    THEN IF obs = "bad_keys" THEN ExtractFailed(completed, chunk, base)
         ELSE [completed |-> completed, chunk |-> chunk,
               res |-> [base EXCEPT !.outcome = "PreprocessError"]]
    ELSE ServeAction(completed, chunk, [base EXCEPT !.viz = return_viz])

\* an infer() whose query branch does not reset the counter
InferResultKeepsCounter(completed, chunk, h, obs, return_viz, reqOk, resp) ==
    LET query == NeedsQuery(completed, h)
        base  == [NoCall EXCEPT !.refill = query, !.before = completed,
                                !.rerenderBefore = rerender(completed, h)]
    IN  IF ~query THEN ServeWithViz(completed, chunk, obs, return_viz, base)
        ELSE IF obs = "bad_keys" THEN ExtractFailed(completed, chunk, base)
        ELSE IF obs = "bad_image" THEN ResizeFailed(chunk, base)
        ELSE IF ~reqOk THEN RequestFailed(chunk, base)
        ELSE ServeAction(completed, resp, [base EXCEPT !.requested = TRUE,
                                                       !.answered = TRUE,
                                                       !.viz = TRUE])

\* an infer() that does not keep the chunk the server answered with
InferResultDropsAnswer(completed, chunk, h, obs, return_viz, reqOk, resp) ==
    LET query == NeedsQuery(completed, h)
        base  == [NoCall EXCEPT !.refill = query, !.before = completed,
                                !.rerenderBefore = rerender(completed, h)]
    IN  IF ~query THEN ServeWithViz(completed, chunk, obs, return_viz, base)
        ELSE IF obs = "bad_keys" THEN ExtractFailed(completed, chunk, base)
        ELSE IF obs = "bad_image" THEN ResizeFailed(chunk, base)
        ELSE IF ~reqOk THEN RequestFailed(chunk, base)
        ELSE ServeAction(0, chunk, [base EXCEPT !.requested = TRUE,
                                                !.answered = TRUE,
                                                !.viz = TRUE])

\* one infer() call made with counter completed, chunk chunk and horizon h:
\* obs is the observation given, return_viz the flag given, reqOk says whether
\* client.infer(request_data) answers, resp is server_response["actions"]
InferResult(completed, chunk, h, obs, return_viz, reqOk, resp) ==
    LET query == NeedsQuery(completed, h)
        base  == [NoCall EXCEPT !.refill = query, !.before = completed,
                                !.rerenderBefore = rerender(completed, h)]
    IN  IF ~query THEN ServeWithViz(completed, chunk, obs, return_viz, base)
        ELSE IF obs = "bad_keys" THEN ExtractFailed(completed, chunk, base)
        ELSE IF obs = "bad_image" THEN ResizeFailed(chunk, base)
        ELSE IF ~reqOk THEN RequestFailed(chunk, base)
        ELSE ServeAction(0, resp, [base EXCEPT !.requested = TRUE,
                                               !.answered = TRUE,
                                               !.viz = TRUE])

\* a reset() that forgets the counter
ResetKeepsCounter == [completed |-> actions_from_chunk_completed,
                      chunk |-> NoChunk]

\* a reset() that forgets the chunk
ResetKeepsChunk == [completed |-> 0, chunk |-> pred_action_chunk]

\* reset(): the state it leaves
ResetState == [completed |-> 0, chunk |-> NoChunk]

\* the client after __init__
InitClient ==
    /\ args \in ArgsHorizons
    /\ metadata \in Metadatas
    /\ open_loop_horizon = InitHorizon(args, metadata)
    /\ actions_from_chunk_completed = 0
    /\ pred_action_chunk = NoChunk
    /\ clientOp = "init"
    /\ last = NoCall
    /\ allOk = TRUE
    /\ inferCalls = 0
    /\ requests = 0
    /\ answer = "none"
    /\ servedSince = 0

\* infer(obs, instruction, return_viz)
infer(obs, return_viz, reqOk, resp) ==
    LET r  == InferResult(actions_from_chunk_completed, pred_action_chunk,
                          open_loop_horizon, obs, return_viz, reqOk, resp)
        ok == /\ allOk
              /\ r.res.outcome # "PreprocessError"
              /\ r.res.requested =>
                     /\ r.res.answered
                     /\ resp.present
                     /\ Len(resp.actions) >= open_loop_horizon
    IN  /\ inferCalls < MaxCalls
        /\ actions_from_chunk_completed' = r.completed
        /\ pred_action_chunk' = r.chunk
        /\ clientOp' = "infer"
        /\ last' = r.res
        /\ allOk' = ok
        /\ inferCalls' = IF ok THEN inferCalls + 1 ELSE 0
        /\ requests' = IF ok THEN requests + (IF r.res.requested THEN 1 ELSE 0)
                              ELSE 0
        /\ answer' = IF ~r.res.answered THEN answer
                      ELSE IF resp.present THEN "actions" ELSE "null"
        /\ servedSince' = (IF r.res.refill THEN 0 ELSE servedSince)
                           + (IF r.res.outcome = "returned" THEN 1 ELSE 0)
        /\ UNCHANGED <<args, metadata, open_loop_horizon>>
        /\ UNCHANGED <<recVars, rubricVars>>

\* reset(): notifyOk says whether client.infer({"reset": True}) answers
reset(notifyOk) ==
    /\ actions_from_chunk_completed' = ResetState.completed
    /\ pred_action_chunk' = ResetState.chunk
    /\ clientOp' = "reset"
    /\ last' = [NoCall EXCEPT !.outcome = "returned",
                              !.before = actions_from_chunk_completed,
                              !.notifyFailed = ~notifyOk]
    /\ allOk' = TRUE
    /\ inferCalls' = 0
    /\ requests' = 0
    /\ answer' = "none"
    /\ servedSince' = 0
    /\ UNCHANGED <<args, metadata, open_loop_horizon>>
    /\ UNCHANGED <<recVars, rubricVars>>

\* the caller's infer() call; the server answers, or fails to, only when the
\* call sends it a request
InferStep ==
    \E obs \in Observations, return_viz \in BOOLEAN :
        IF NeedsQuery(actions_from_chunk_completed, open_loop_horizon)
               /\ obs = "ok"
        THEN \/ infer(obs, return_viz, FALSE, NoChunk)
             \/ \E resp \in Responses : infer(obs, return_viz, TRUE, resp)
        ELSE infer(obs, return_viz, TRUE, NoChunk)

ResetStep == \E notifyOk \in BOOLEAN : reset(notifyOk)

----------------------------------------------------------------------------
(* PolarisTrajectoryRecorder *)

\* the lists of episode_data["observations"], in the order of their appends
ObsFields == <<"external_cam", "wrist_cam", "joint_position", "joint_velocity",
               "gripper_position", "gripper_velocity", "ee_pose", "ee_velocity",
               "timestamp">>

\* the lists of episode_data["actions"]
ActFields == <<"joint_position_command", "gripper_command">>

ObsNames == {ObsFields[i] : i \in 1..Len(ObsFields)}

ActNames == {ActFields[i] : i \in 1..Len(ActFields)}

\* the "fps" written by start_episode
Fps == 15

\* current_episode before the first start_episode (None)
NoEpisode == -1

\* what a recorder is given is pairwise distinct: the n-th episode started is
\* started with Instruction(n) and TaskId(n), and the observation and the
\* action of its i-th step carry Sample(n, i)
Instruction(n) == <<"instruction", n>>

TaskId(n) == <<"task_id", n>>

Sample(n, i) == <<n, i>>

\* rubric_result: None, or a dict with some of the keys success and progress
RubricResults ==
    {[isNone |-> TRUE, keys |-> {}, success |-> FALSE, progress |-> 0],
     [isNone |-> FALSE, keys |-> {}, success |-> FALSE, progress |-> 0],
     [isNone |-> FALSE, keys |-> {"success"}, success |-> TRUE, progress |-> 0]}

NoRubric == [isNone |-> TRUE, keys |-> {}, success |-> FALSE, progress |-> 0]

\* what the file system does to _save_episode_to_hdf5: it works, the file
\* cannot be opened, or a write fails after the group was created
IoOutcomes == {"ok", "open_fails", "write_fails"}

\* episodes started on one recorder
MaxStarts == 2

\* steps recorded in one episode
MaxEpisodeLen == 2

NoMetadata == [instruction |-> <<>>, task_id |-> <<>>, fps |-> 0,
               hasLength |-> FALSE, episode_length |-> 0,
               hasRubric |-> FALSE, success |-> FALSE, progress |-> 0]

\* episode_data = {}
EmptyData == [isEmpty |-> TRUE,
              observations |-> [f \in ObsNames |-> <<>>],
              actions |-> [f \in ActNames |-> <<>>],
              stacked |-> {},
              metadata |-> NoMetadata]

\* a start_episode that keeps the metadata dict of the episode before
FreshDataStaleMetadata(instruction, task_id) ==
    [isEmpty |-> FALSE,
     observations |-> [f \in ObsNames |-> <<>>],
     actions |-> [f \in ActNames |-> <<>>],
     stacked |-> {},
     metadata |-> IF episode_data.isEmpty
                  THEN [NoMetadata EXCEPT !.instruction = instruction,
                                          !.task_id = task_id, !.fps = Fps]
                  ELSE episode_data.metadata]

\* episode_data as start_episode builds it
FreshData(instruction, task_id) ==
    [isEmpty |-> FALSE,
     observations |-> [f \in ObsNames |-> <<>>],
     actions |-> [f \in ActNames |-> <<>>],
     stacked |-> {},
     metadata |-> [NoMetadata EXCEPT !.instruction = instruction,
                                     !.task_id = task_id, !.fps = Fps]]

\* the recorder after __init__
InitRecorder ==
    /\ is_recording = FALSE
    /\ episode_count = 0
    /\ current_episode = NoEpisode
    /\ episode_data = EmptyData
    /\ file = {}
    /\ starts = 0
    /\ recOp = "init"
    /\ recOutcome = "none"

\* a start_episode that does not look at is_recording
start_episode_unguarded(instruction, task_id) ==
    /\ recOp' = "start_episode"
    /\ is_recording' = TRUE
    /\ starts' = starts + 1
    /\ current_episode' = episode_count
    /\ episode_data' = FreshData(instruction, task_id)
    /\ recOutcome' = "returned"
    /\ UNCHANGED <<episode_count, file>>
    /\ UNCHANGED <<clientVars, rubricVars>>

\* start_episode(instruction, task_id)
start_episode(instruction, task_id) ==
    /\ recOp' = "start_episode"
    /\ IF is_recording
       THEN /\ recOutcome' = "RuntimeError"
            /\ UNCHANGED <<is_recording, episode_count, current_episode,
                           episode_data, file, starts>>
       ELSE /\ is_recording' = TRUE
            /\ starts' = starts + 1
            /\ current_episode' = episode_count
            /\ episode_data' = FreshData(instruction, task_id)
            /\ recOutcome' = "returned"
            /\ UNCHANGED <<episode_count, file>>
    /\ UNCHANGED <<clientVars, rubricVars>>

\* a record_step that does not look at is_recording
record_step_unguarded(obsOk, actOk) ==
    /\ recOp' = "record_step"
    /\ IF ~obsOk
       THEN /\ recOutcome' = "KeyError"
            /\ UNCHANGED episode_data
       ELSE IF ObsFields[1] \in episode_data.stacked
       THEN /\ recOutcome' = "AttributeError"
            /\ UNCHANGED episode_data
       ELSE LET sample  == Sample(starts,
                                  Len(episode_data.observations["timestamp"]) + 1)
                withObs == [episode_data EXCEPT !.observations =
                               [f \in ObsNames |-> Append(@[f], sample)]]
            IN  IF ~actOk
                THEN /\ recOutcome' = "ActionError"
                     /\ episode_data' = withObs
                ELSE /\ recOutcome' = "returned"
                     /\ episode_data' = [withObs EXCEPT !.actions =
                            [f \in ActNames |-> Append(@[f], sample)]]
    /\ UNCHANGED <<is_recording, episode_count, current_episode, file, starts>>
    /\ UNCHANGED <<clientVars, rubricVars>>

\* record_step(obs, action): obsOk says whether obs has the keys read,
\* actOk whether np.asarray(action, dtype=np.float32) succeeds
record_step(obsOk, actOk) ==
    /\ recOp' = "record_step"
    /\ IF ~is_recording
       THEN /\ recOutcome' = "RuntimeError"
            /\ UNCHANGED episode_data
       ELSE IF ~obsOk
       THEN /\ recOutcome' = "KeyError"
            /\ UNCHANGED episode_data
       ELSE IF ObsFields[1] \in episode_data.stacked
       THEN /\ recOutcome' = "AttributeError"
            /\ UNCHANGED episode_data
       ELSE LET sample  == Sample(starts,
                                  Len(episode_data.observations["timestamp"]) + 1)
                withObs == [episode_data EXCEPT !.observations =
                               [f \in ObsNames |-> Append(@[f], sample)]]
            IN  IF ~actOk
                THEN /\ recOutcome' = "ActionError"
                     /\ episode_data' = withObs
                ELSE /\ recOutcome' = "returned"
                     /\ episode_data' = [withObs EXCEPT !.actions =
                            [f \in ActNames |-> Append(@[f], sample)]]
    /\ UNCHANGED <<is_recording, episode_count, current_episode, file, starts>>
    /\ UNCHANGED <<clientVars, rubricVars>>

\* a _save_episode_to_hdf5 that leaves the action datasets out
GroupSkipsActions(name, data, complete) ==
    [name |-> name,
     observations |-> data.observations,
     actions |-> [f \in ActNames |-> <<>>],
     metadata |-> IF complete THEN data.metadata ELSE NoMetadata,
     complete |-> complete]

\* the group episode_<name> of the file
Group(name, data, complete) ==
    [name |-> name,
     observations |-> data.observations,
     actions |-> IF complete THEN data.actions ELSE [f \in ActNames |-> <<>>],
     metadata |-> IF complete THEN data.metadata ELSE NoMetadata,
     complete |-> complete]

GroupNames(f) == {g.name : g \in f}

\* _save_episode_to_hdf5(): the file it leaves and how it ends
SaveEpisode(f, name, data, io) ==
    IF io = "open_fails" THEN [file |-> f, outcome |-> "OSError"]
    ELSE IF name \in GroupNames(f) THEN [file |-> f, outcome |-> "ValueError"]
    ELSE IF io = "write_fails"
    THEN [file |-> f \cup {Group(name, data, FALSE)}, outcome |-> "OSError"]
    ELSE [file |-> f \cup {Group(name, data, TRUE)}, outcome |-> "returned"]

\* an end_episode that counts the episode it discards
DiscardEmptyCounted(cur) ==
    [cur EXCEPT !.is_recording = FALSE, !.episode_count = @ + 1,
                !.outcome = "returned"]

\* end_episode on an episode of length 0: the warning, is_recording = False
DiscardEmpty(cur) ==
    [cur EXCEPT !.is_recording = FALSE, !.outcome = "returned"]

\* an end_episode that raises when no episode is in progress, as
\* start_episode and record_step do on a wrong lifecycle state
NoEpisodeInProgressRaises(cur) ==
    [cur EXCEPT !.outcome = "RuntimeError"]

\* end_episode with no episode in progress: the warning, nothing else
NoEpisodeInProgress(cur) ==
    [cur EXCEPT !.outcome = "returned"]

\* end_episode(rubric_result): the recorder it leaves and how it ends
EndEpisode(rubric, io) ==
    LET cur == [is_recording |-> is_recording, episode_count |-> episode_count,
                episode_data |-> episode_data, file |-> file,
                outcome |-> "none"]
        episode_length == Len(episode_data.observations["timestamp"])
    IN  IF ~is_recording THEN NoEpisodeInProgress(cur)
        ELSE IF episode_length = 0 THEN DiscardEmpty(cur)
        ELSE IF \E f \in ActNames : episode_data.actions[f] = <<>>
        THEN [cur EXCEPT !.episode_data.stacked = ObsNames,
                         !.outcome = "ValueError"]
        ELSE
            LET data == [episode_data EXCEPT
                            !.stacked = ObsNames \cup ActNames,
                            !.metadata.hasLength = TRUE,
                            !.metadata.episode_length = episode_length,
                            !.metadata.hasRubric =
                                @ \/ (~rubric.isNone /\ rubric.keys # {}),
                            !.metadata.success =
                                IF ~rubric.isNone /\ rubric.keys # {}
                                THEN ("success" \in rubric.keys /\ rubric.success)
                                ELSE @,
                            !.metadata.progress =
                                IF ~rubric.isNone /\ rubric.keys # {}
                                THEN (IF "progress" \in rubric.keys
                                      THEN rubric.progress ELSE 0)
                                ELSE @]
                saved == SaveEpisode(file, current_episode, data, io)
            IN  IF saved.outcome # "returned"
                THEN [cur EXCEPT !.episode_data = data, !.file = saved.file,
                                 !.outcome = saved.outcome]
                ELSE [cur EXCEPT !.episode_count = episode_count + 1,
                                 !.is_recording = FALSE,
                                 !.episode_data = EmptyData,
                                 !.file = saved.file,
                                 !.outcome = "returned"]

\* end_episode(rubric_result)
end_episode(rubric, io) ==
    LET r == EndEpisode(rubric, io)
    IN  /\ recOp' = "end_episode"
        /\ recOutcome' = r.outcome
        /\ is_recording' = r.is_recording
        /\ episode_count' = r.episode_count
        /\ episode_data' = r.episode_data
        /\ file' = r.file
        /\ UNCHANGED <<current_episode, starts>>
        /\ UNCHANGED <<clientVars, rubricVars>>

\* save()
save(io) ==
    LET r == EndEpisode(NoRubric, io)
    IN  /\ recOp' = "save"
        /\ recOutcome' = r.outcome
        /\ is_recording' = r.is_recording
        /\ episode_count' = r.episode_count
        /\ episode_data' = r.episode_data
        /\ file' = r.file
        /\ UNCHANGED <<current_episode, starts>>
        /\ UNCHANGED <<clientVars, rubricVars>>

StartEpisodeStep ==
    /\ starts < MaxStarts \/ is_recording
    /\ start_episode(Instruction(starts + 1), TaskId(starts + 1))

RecordStep ==
    /\ \/ Len(episode_data.observations["timestamp"]) < MaxEpisodeLen
       \/ episode_data.stacked # {}
    /\ \E obsOk \in BOOLEAN, actOk \in BOOLEAN : record_step(obsOk, actOk)

EndEpisodeStep == \E rubric \in RubricResults, io \in IoOutcomes :
                      end_episode(rubric, io)

SaveStep == \E io \in IoOutcomes : save(io)

----------------------------------------------------------------------------
(* Rubrics: environments/__init__.py registers one Rubric per environment. *)
(* Lengths are in hundredths of a metre, fractions in hundredths; indices  *)
(* of criteria are 0-based as in the source, sequences 1-based.            *)

\* checkers.reach(entity, threshold=...)
reach(entity, threshold) ==
    [kind |-> "reach", entity |-> entity, other |-> "",
     hasDefault |-> FALSE, default_height |-> 0,
     threshold |-> threshold, rot_threshold |-> 0, deps |-> {}]

\* checkers.lift(entity, threshold=..., default_height=...); hasDefault says
\* whether default_height is given
lift(entity, hasDefault, default_height, threshold) ==
    [kind |-> "lift", entity |-> entity, other |-> "",
     hasDefault |-> hasDefault, default_height |-> default_height,
     threshold |-> threshold, rot_threshold |-> 0, deps |-> {}]

\* checkers.is_within_xy(entity, other, percent_threshold)
is_within_xy(entity, other, percent_threshold) ==
    [kind |-> "is_within_xy", entity |-> entity, other |-> other,
     hasDefault |-> FALSE, default_height |-> 0,
     threshold |-> percent_threshold, rot_threshold |-> 0, deps |-> {}]

\* checkers.pose_match(entity, target_pos=..., target_quat=...,
\* pos_threshold=..., rot_threshold=...)
pose_match(entity, pos_threshold, rot_threshold) ==
    [kind |-> "pose_match", entity |-> entity, other |-> "",
     hasDefault |-> FALSE, default_height |-> 0,
     threshold |-> pos_threshold, rot_threshold |-> rot_threshold,
     deps |-> {}]

\* a criterion given as the tuple (checker, [indices of its predecessors])
Requires(checker, indices) == [checker EXCEPT !.deps = indices]

\* a BlockStackKitchen whose last criterion requires the green cube in the
\* tray only
BlockStackKitchenOnePredecessor ==
    <<reach("green_cube", 20),
      reach("wood_cube", 20),
      Requires(lift("green_cube", TRUE, 6, 3), {0}),
      Requires(lift("wood_cube", TRUE, 6, 3), {1}),
      Requires(is_within_xy("green_cube", "tray", 80), {2}),
      Requires(is_within_xy("wood_cube", "tray", 80), {3}),
      Requires(is_within_xy("green_cube", "wood_cube", 50), {4})>>

BlockStackKitchen ==
    <<reach("green_cube", 20),
      reach("wood_cube", 20),
      Requires(lift("green_cube", TRUE, 6, 3), {0}),
      Requires(lift("wood_cube", TRUE, 6, 3), {1}),
      Requires(is_within_xy("green_cube", "tray", 80), {2}),
      Requires(is_within_xy("wood_cube", "tray", 80), {3}),
      Requires(is_within_xy("green_cube", "wood_cube", 50), {4, 5})>>

FoodBussing ==
    <<reach("ice_cream_", 20),
      reach("grapes", 20),
      Requires(lift("ice_cream_", FALSE, 0, 6), {0}),
      Requires(lift("grapes", FALSE, 0, 6), {1}),
      Requires(is_within_xy("ice_cream_", "bowl", 80), {2}),
      Requires(is_within_xy("grapes", "bowl", 80), {3})>>

\* a PanClean whose lift names itself as its predecessor
PanCleanSelfReference ==
    <<reach("sponge", 20),
      Requires(lift("sponge", TRUE, 0, 9), {1}),
      Requires(is_within_xy("sponge", "pan", 80), {1})>>

PanClean ==
    <<reach("sponge", 20),
      Requires(lift("sponge", TRUE, 0, 9), {0}),
      Requires(is_within_xy("sponge", "pan", 80), {1})>>

MoveLatteCup ==
    <<reach("latteartcup_eval", 20),
      Requires(lift("latteartcup_eval", FALSE, 0, 4), {0}),
      Requires(is_within_xy("latteartcup_eval", "cuttingboard_eval", 80), {1})>>

OrganizeTools ==
    <<reach("scissor", 20),
      Requires(lift("scissor", FALSE, 0, 4), {0}),
      Requires(is_within_xy("scissor", "container_01", 80), {1})>>

TapeIntoContainer ==
    <<reach("tape_00", 20),
      Requires(lift("tape_00", FALSE, 0, 4), {0}),
      Requires(is_within_xy("tape_00", "container_02", 80), {1})>>

RubiksCubeKitchen ==
    <<reach("rubiks_cube", 15),
      Requires(lift("rubiks_cube", TRUE, 8, 3), {0}),
      Requires(pose_match("rubiks_cube", 5, 10), {1})>>

PlayingCardsKitchen ==
    <<reach("playing_cards_0", 15),
      Requires(lift("playing_cards_0", TRUE, 3, 3), {0}),
      Requires(pose_match("playing_cards_0", 5, 10), {1})>>

PhoneStandKitchen ==
    <<reach("phone_0", 15),
      Requires(lift("phone_0", TRUE, 5, 3), {0}),
      Requires(pose_match("phone_0", 5, 20), {1})>>

ShoeKitchen ==
    <<reach("shoe_0", 15),
      Requires(lift("shoe_0", TRUE, 5, 3), {0}),
      Requires(pose_match("shoe_0", 5, 30), {1})>>

RubiksBoxKitchen ==
    <<reach("rubikscube_0", 15),
      Requires(lift("rubikscube_0", TRUE, 5, 3), {0}),
      Requires(pose_match("rubikscube_0", 5, 30), {1})>>

BookKitchen ==
    <<reach("book_0", 15),
      Requires(lift("book_0", TRUE, 5, 3), {0}),
      Requires(pose_match("book_0", 5, 30), {1})>>

ForkCupKitchen ==
    <<reach("fork_0", 15),
      Requires(lift("fork_0", TRUE, 5, 3), {0}),
      Requires(pose_match("fork_0", 5, 30), {1})>>

\* the environments registered with gym.register, each with its rubric
Registered ==
    {[id |-> "DROID-BlockStackKitchen", criteria |-> BlockStackKitchen],
     [id |-> "DROID-FoodBussing", criteria |-> FoodBussing],
     [id |-> "DROID-PanClean", criteria |-> PanClean],
     [id |-> "DROID-MoveLatteCup", criteria |-> MoveLatteCup],
     [id |-> "DROID-OrganizeTools", criteria |-> OrganizeTools],
     [id |-> "DROID-TapeIntoContainer", criteria |-> TapeIntoContainer],
     [id |-> "DROID-RubiksCubeKitchen", criteria |-> RubiksCubeKitchen],
     [id |-> "DROID-PlayingCardsKitchen", criteria |-> PlayingCardsKitchen],
     [id |-> "DROID-PhoneStandKitchen", criteria |-> PhoneStandKitchen],
     [id |-> "DROID-ShoeKitchen", criteria |-> ShoeKitchen],
     [id |-> "DROID-RubiksBoxKitchen", criteria |-> RubiksBoxKitchen],
     [id |-> "DROID-BookKitchen", criteria |-> BookKitchen],
     [id |-> "DROID-ForkCupKitchen", criteria |-> ForkCupKitchen]}

EnvIds == {e.id : e \in Registered}

\* the criteria of the rubric registered under id
CriteriaOf(id) == (CHOOSE e \in Registered : e.id = id).criteria

\* the dependency-graph invariant of a rubric: every predecessor index names
\* an earlier criterion
WellFormed(criteria) ==
    \A i \in 1..Len(criteria) :
        \A d \in criteria[i].deps : d >= 0 /\ d < i - 1

\* what a criterion that is not invoked reports
Gated == [satisfied |-> FALSE, progress |-> 0]

\* what the predicate of a reach, is_within_xy or pose_match criterion
\* returns: not satisfied with some progress, or satisfied
PredicateOutcomes == {[satisfied |-> FALSE, progress |-> 50],
                      [satisfied |-> TRUE, progress |-> 100]}

\* the heights the entity of a lift criterion is seen at: at rest, just
\* above, and threshold above
Heights(c) ==
    LET rest == IF c.hasDefault THEN c.default_height ELSE 0
    IN  {rest, rest + 1, rest + c.threshold}

\* what one evaluation sees of the simulation for criterion c
Observed(c) ==
    IF c.kind = "lift"
    THEN {[height |-> h, outcome |-> Gated] : h \in Heights(c)}
    ELSE {[height |-> 0, outcome |-> o] : o \in PredicateOutcomes}

\* the simulation states a rubric is evaluated on, criterion by criterion
RECURSIVE SimStates(_, _)
SimStates(criteria, n) ==
    IF n = 0 THEN {<<>>}
    ELSE {Append(s, o) : s \in SimStates(criteria, n - 1),
                         o \in Observed(criteria[n])}

\* no baseline height yet
NoBaseline == [set |-> FALSE, height |-> 0]

\* the baseline heights of a rubric's criteria when it is constructed
InitialBaseline(criteria) ==
    [i \in 1..Len(criteria) |->
        IF criteria[i].kind = "lift" /\ criteria[i].hasDefault
        THEN [set |-> TRUE, height |-> criteria[i].default_height]
        ELSE NoBaseline]

\* a lift that measures from the height it sees now
LiftBaselineLatest(cached, height) == height

\* lift: the height the entity's lift is measured from
LiftBaseline(cached, height) ==
    IF cached.set THEN cached.height ELSE height

\* lift: satisfied when the entity is threshold above its baseline
LiftOutcome(c, cached, height) ==
    LET amount == height - LiftBaseline(cached, height)
    IN  [satisfied |-> amount >= c.threshold,
         progress |-> Max(0, Min(100, (amount * 100) \div c.threshold))]

\* the predicate of criterion c on what is seen of the simulation
Predicate(c, cached, seen) ==
    IF c.kind = "lift" THEN LiftOutcome(c, cached, seen.height)
    ELSE seen.outcome

\* a pass that keeps a criterion unlocked once its predecessors were
\* satisfied in the pass before
RECURSIVE CriterionResultsLatched(_, _, _, _)
CriterionResultsLatched(criteria, cache, state, done) ==
    IF Len(done) = Len(criteria) THEN done
    ELSE LET i     == Len(done) + 1
             c     == criteria[i]
             gated == \E d \in c.deps :
                          /\ ~done[d + 1].satisfied
                          /\ ~(/\ d + 1 <= Len(rubric_result.per)
                               /\ rubric_result.per[d + 1].satisfied)
         IN  CriterionResultsLatched(criteria, cache, state,
                 Append(done, IF gated THEN Gated
                              ELSE Predicate(c, cache[i], state[i])))

\* Rubric.evaluate: the criteria in declared order, each one forced to Gated
\* when a predecessor was not satisfied in this pass
RECURSIVE CriterionResults(_, _, _, _)
CriterionResults(criteria, cache, state, done) ==
    IF Len(done) = Len(criteria) THEN done
    ELSE LET i     == Len(done) + 1
             c     == criteria[i]
             gated == \E d \in c.deps : ~done[d + 1].satisfied
         IN  CriterionResults(criteria, cache, state,
                 Append(done, IF gated THEN Gated
                              ELSE Predicate(c, cache[i], state[i])))

\* an aggregate that takes the progress of every criterion not satisfied
RECURSIVE CreditEveryPending(_, _, _)
CreditEveryPending(per, i, pendingSeen) ==
    IF i > Len(per) THEN 0
    ELSE IF per[i].satisfied
    THEN 100 + CreditEveryPending(per, i + 1, pendingSeen)
    ELSE per[i].progress + CreditEveryPending(per, i + 1, TRUE)

\* Rubric.evaluate: the credit of criteria i.. in hundredths of a criterion:
\* full credit for each one satisfied, the progress of the first one that is
\* not, nothing for the ones not satisfied after it
RECURSIVE Credit(_, _, _)
Credit(per, i, pendingSeen) ==
    IF i > Len(per) THEN 0
    ELSE IF per[i].satisfied
    THEN 100 + Credit(per, i + 1, pendingSeen)
    ELSE (IF pendingSeen THEN 0 ELSE per[i].progress)
         + Credit(per, i + 1, TRUE)

\* no evaluation yet
NoResult == [outcome |-> "none", per |-> <<>>,
             progress |-> [num |-> 0, den |-> 0], success |-> FALSE]

\* Rubric.evaluate(state): the RubricResult, progress as the fraction
\* num / den
Evaluate(criteria, cache, state) ==
    IF ~WellFormed(criteria)
    THEN [NoResult EXCEPT !.outcome = "ConfigurationError"]
    ELSE LET per == CriterionResults(criteria, cache, state, <<>>)
         IN  [outcome |-> "returned",
              per |-> per,
              progress |-> [num |-> Credit(per, 1, FALSE),
                            den |-> 100 * Len(per)],
              success |-> \A i \in 1..Len(per) : per[i].satisfied]

\* criterion i had its predicate invoked in the pass that reported per
Invoked(criteria, per, i) ==
    \A d \in criteria[i].deps : per[d + 1].satisfied

\* the baseline heights after a pass: a lift without default_height that was
\* invoked for the first time keeps the height it saw
NextBaseline(criteria, cache, state, per) ==
    [i \in 1..Len(criteria) |->
        IF /\ criteria[i].kind = "lift"
           /\ ~cache[i].set
           /\ Invoked(criteria, per, i)
        THEN [set |-> TRUE, height |-> state[i].height]
        ELSE cache[i]]

\* the rubric of one registered environment, constructed
InitRubric ==
    /\ env \in EnvIds
    /\ baseline = InitialBaseline(CriteriaOf(env))
    /\ sim_state = <<>>
    /\ rubric_result = NoResult
    /\ prevSuccess = FALSE
    /\ rubricOp = "init"

\* rubric.evaluate(state)
evaluate(state) ==
    LET criteria == CriteriaOf(env)
        r        == Evaluate(criteria, baseline, state)
    IN  /\ rubricOp' = "evaluate"
        /\ sim_state' = state
        /\ rubric_result' = r
        /\ baseline' = IF r.outcome = "returned"
                       THEN NextBaseline(criteria, baseline, state, r.per)
                       ELSE baseline
        /\ prevSuccess' = rubric_result.success
        /\ UNCHANGED env
        /\ UNCHANGED <<clientVars, recVars>>

\* the environment's step evaluates the rubric on the simulation state
EvaluateStep ==
    \E state \in SimStates(CriteriaOf(env), Len(CriteriaOf(env))) :
        evaluate(state)

----------------------------------------------------------------------------
(* Specifications *)

\* one rubric, as the other specifications keep it
IdleRubric ==
    /\ InitRubric
    /\ env = "DROID-BlockStackKitchen"

Init == InitClient /\ InitRecorder /\ IdleRubric

Next == InferStep \/ ResetStep

\* the inference client, driven by its caller
Spec == Init /\ [][Next]_vars

\* one client, as the recorder's specification keeps it
IdleClient ==
    /\ InitClient
    /\ args = [isNone |-> TRUE, value |-> 0]
    /\ metadata = [present |-> FALSE, hasSteps |-> FALSE, n_action_steps |-> 0]

InitRec == IdleClient /\ InitRecorder /\ IdleRubric

NextRec == StartEpisodeStep \/ RecordStep \/ EndEpisodeStep \/ SaveStep

\* the trajectory recorder, driven by its caller
SpecRecorder == InitRec /\ [][NextRec]_vars

InitRub == IdleClient /\ InitRecorder /\ InitRubric

NextRub == EvaluateStep

\* the rubric of a registered environment, evaluated step after step
SpecRubric == InitRub /\ [][NextRub]_vars

----------------------------------------------------------------------------
(* The inference client's claims, under Spec *)

\* the raw action the last infer() call served
ServedRaw == pred_action_chunk.actions[last.index + 1]

\* C1: from IDLE, with horizon H >= 1 and every call so far given a good
\* observation and every request answered with at least H actions, the k-th
\* infer() call returns an action and sends a request iff (k-1) mod H = 0, so
\* that k calls have sent ((k-1) div H) + 1 requests: one in the first H calls,
\* the second at call H+1.
C1_RequestEveryHorizon ==
    (clientOp = "infer" /\ allOk /\ open_loop_horizon >= 1) =>
        /\ last.outcome = "returned"
        /\ last.requested <=> ((inferCalls - 1) % open_loop_horizon = 0)
        /\ requests = ((inferCalls - 1) \div open_loop_horizon) + 1

\* nine calls in a row with the default horizon: the ninth sends the second
\* request
C1_Witness ==
    /\ clientOp = "infer"
    /\ allOk
    /\ open_loop_horizon = DefaultHorizon
    /\ inferCalls = DefaultHorizon + 1
    /\ requests = 2
    /\ last.requested

\* C2: rerender read just before an infer() call is true exactly when that
\* call takes the query branch; a request is only ever sent by a call before
\* which rerender was true, and is sent by every such call unless preprocessing
\* the observation raises first; with horizon 8 from IDLE it is true before
\* calls 1 and 9 and false before calls 2 to 8.
C2_RerenderIffRequest ==
    clientOp = "infer" =>
        /\ last.rerenderBefore <=> last.refill
        /\ last.requested => last.rerenderBefore
        /\ last.outcome # "PreprocessError" =>
               (last.rerenderBefore <=> last.requested)
        /\ (allOk /\ open_loop_horizon = 8 /\ inferCalls <= 9) =>
               (last.rerenderBefore <=> inferCalls \in {1, 9})

\* a call made with the chunk used up: rerender was true and a request went out
C2_Witness ==
    /\ clientOp = "infer"
    /\ open_loop_horizon >= 2
    /\ last.before >= open_loop_horizon
    /\ last.rerenderBefore
    /\ last.requested

\* C3, as claimed: the gripper of a returned action is 1.0 when the raw value
\* is at least 0.5 (the boundary included) and 0.0 otherwise, and the other
\* elements are the raw ones.
C3_Original ==
    (clientOp = "infer" /\ last.outcome = "returned") =>
        LET n == Len(ServedRaw)
        IN  /\ last.action[n] =
                   (IF ServedRaw[n] >= 50 THEN 100 ELSE 0)
            /\ \A i \in 1..(n - 1) : last.action[i] = ServedRaw[i]

\* C3, amended: the gripper of a returned action is exactly 0.0 or 1.0, and
\* 1.0 only when the raw value is above 0.5: 0.51 gives 1.0, 0.49 and 0.50
\* give 0.0; the other elements are the raw ones cast to float32, unchanged
\* when they are float32 values.
C3_GripperStrictThreshold ==
    (clientOp = "infer" /\ last.outcome = "returned") =>
        LET n == Len(ServedRaw)
        IN  /\ Len(last.action) = n
            /\ last.action[n] \in {0, 100}
            /\ last.action[n] = 100 <=> ServedRaw[n] > 50
            /\ ServedRaw[n] = 51 => last.action[n] = 100
            /\ ServedRaw[n] \in {49, 50} => last.action[n] = 0
            /\ \A i \in 1..(n - 1) :
                   /\ last.action[i] = AsFloat32(ServedRaw[i])
                   /\ ServedRaw[i] % 2 = 0 => last.action[i] = ServedRaw[i]

\* a raw gripper value of exactly 0.50 was served as 0.0
C3_Witness ==
    /\ clientOp = "infer"
    /\ last.outcome = "returned"
    /\ ServedRaw[Len(ServedRaw)] = GripperThreshold
    /\ last.action[Len(last.action)] = GripperOpen

\* C4: reset() returns normally and leaves counter 0 and no chunk, from any
\* state and whether or not the notification raised; the infer() call that
\* follows it takes the query branch and, unless preprocessing the observation
\* raises, sends a request.
C4_ResetToIdle ==
    /\ [](clientOp = "reset" =>
              /\ last.outcome = "returned"
              /\ actions_from_chunk_completed = 0
              /\ pred_action_chunk = NoChunk)
    /\ [][(clientOp = "reset" /\ clientOp' = "infer") =>
              /\ last'.refill
              /\ last'.outcome # "PreprocessError" => last'.requested]_vars

\* reset() was called with the chunk used up, and its notification raised
C4_Witness ==
    /\ clientOp = "reset"
    /\ last.notifyFailed
    /\ open_loop_horizon >= 1
    /\ last.before >= open_loop_horizon

\* C5: an infer() call whose request raises ends with that error and without
\* an action, after one request, and leaves the chunk as it was.
C5_RequestFailurePropagates ==
    [][(clientOp' = "infer" /\ last'.requested /\ ~last'.answered) =>
           /\ last'.outcome = "TransportError"
           /\ last'.action = NoAction
           /\ pred_action_chunk' = pred_action_chunk]_vars

\* a refill request raised while an earlier chunk was held
C5_Witness ==
    /\ clientOp = "infer"
    /\ last.outcome = "TransportError"
    /\ last.before >= 1
    /\ pred_action_chunk.present
    /\ Len(pred_action_chunk.actions) >= 1

\* C6: in every state the horizon is the configured one (8 when
\* args.open_loop_horizon is None), clamped to the server's n_action_steps when
\* the metadata advertises it; infer() and reset() never change it.
C6_HorizonClamped ==
    LET configured == IF args.isNone THEN 8 ELSE args.value
    IN  open_loop_horizon =
            IF metadata.present /\ metadata.hasSteps
            THEN (IF configured <= metadata.n_action_steps
                  THEN configured ELSE metadata.n_action_steps)
            ELSE configured

\* a client whose server advertised fewer steps than configured, after a call
C6_Witness ==
    /\ clientOp = "infer"
    /\ ~args.isNone
    /\ metadata.present /\ metadata.hasSteps
    /\ 1 <= metadata.n_action_steps
    /\ metadata.n_action_steps < args.value
    /\ open_loop_horizon = metadata.n_action_steps

\* C7, as claimed: 0 <= actions_from_chunk_completed <= open_loop_horizon.
C7_Original ==
    /\ 0 <= actions_from_chunk_completed
    /\ actions_from_chunk_completed <= open_loop_horizon

\* C7, amended: the counter stays between 0 and the horizon when the horizon
\* is at least 1; with a horizon of 0 every call queries and leaves the
\* counter at 1: 0 <= counter <= max(1, horizon).
C7_CounterWithinHorizon ==
    /\ 0 <= actions_from_chunk_completed
    /\ actions_from_chunk_completed <= Max(1, open_loop_horizon)

\* the chunk was used up to the horizon
C7_Witness ==
    /\ clientOp = "infer"
    /\ open_loop_horizon >= 2
    /\ actions_from_chunk_completed = open_loop_horizon

\* C8, as claimed, of a client with a horizon of at least 1 whose server has
\* answered with enough actions: the chunk is absent exactly when the counter
\* is 0 and no request was answered since construction / reset(); counter 0
\* after an answered request never comes with a present chunk; counter > 0
\* never comes with an absent chunk.
C8_Original ==
    (/\ open_loop_horizon >= 1
     /\ answer # "null"
     /\ pred_action_chunk.present =>
            Len(pred_action_chunk.actions) >= open_loop_horizon) =>
        /\ ~pred_action_chunk.present <=>
               (actions_from_chunk_completed = 0 /\ answer = "none")
        /\ ~(actions_from_chunk_completed = 0 /\ answer # "none"
                /\ pred_action_chunk.present)
        /\ actions_from_chunk_completed > 0 => pred_action_chunk.present

\* C8, amended: the chunk is absent exactly when no request was answered since
\* construction / reset() or the latest answer carried null actions; an
\* absent chunk comes with counter 0 and counter > 0 with a present chunk.
\* (Counter 0 with a present chunk does occur: C8_Witness.)
C8_ChunkAbsentIffUnanswered ==
    /\ ~pred_action_chunk.present <=> answer \in {"none", "null"}
    /\ ~pred_action_chunk.present => actions_from_chunk_completed = 0
    /\ actions_from_chunk_completed > 0 => pred_action_chunk.present

\* counter 0 with the old chunk still held, after a refill request that raised
C8_Witness ==
    /\ clientOp = "infer"
    /\ last.outcome = "TransportError"
    /\ answer = "actions"
    /\ actions_from_chunk_completed = 0
    /\ pred_action_chunk.present
    /\ open_loop_horizon >= 1
    /\ Len(pred_action_chunk.actions) >= open_loop_horizon

----------------------------------------------------------------------------
(* The recorder's claims, under SpecRecorder *)

\* C9: start_episode() called while recording raises the usage error and
\* changes nothing: the recorder stays recording, the buffered steps and the
\* metadata of the episode in progress, episode_count and current_episode are
\* as before, and nothing is written.
C9_StartWhileRecordingRejected ==
    [][(recOp' = "start_episode" /\ is_recording) =>
           /\ recOutcome' = "RuntimeError"
           /\ is_recording'
           /\ episode_data' = episode_data
           /\ episode_count' = episode_count
           /\ current_episode' = current_episode
           /\ file' = file]_vars

\* start_episode() was refused while an episode with a recorded step was
\* in progress
C9_Witness ==
    /\ recOp = "start_episode"
    /\ recOutcome = "RuntimeError"
    /\ is_recording
    /\ Len(episode_data.observations["timestamp"]) >= 1
    /\ Len(episode_data.actions["gripper_command"]) >= 1

\* C10: record_step() called while not recording raises the usage error,
\* appends to no buffer, writes nothing, and leaves episode_count and the
\* recorder not recording.
C10_RecordWhileIdleRejected ==
    [][(recOp' = "record_step" /\ ~is_recording) =>
           /\ recOutcome' = "RuntimeError"
           /\ ~is_recording'
           /\ episode_data' = episode_data
           /\ episode_count' = episode_count
           /\ file' = file]_vars

\* record_step() was refused after an episode had been written
C10_Witness ==
    /\ recOp = "record_step"
    /\ recOutcome = "RuntimeError"
    /\ ~is_recording
    /\ episode_count >= 1
    /\ episode_data = EmptyData

\* no sample is buffered for the episode in progress
NoStepRecorded ==
    /\ \A f \in ObsNames : episode_data.observations[f] = <<>>
    /\ \A f \in ActNames : episode_data.actions[f] = <<>>

\* C11: end_episode() on an episode in which no step was recorded returns,
\* writes no group, leaves episode_count as it was and the recorder not
\* recording; the next start_episode() takes episode_count as its index, and
\* a group that is created is created under that index, so the next
\* non-empty episode is numbered as the discarded one was.
C11_EmptyEpisodeDiscarded ==
    [][/\ (recOp' = "end_episode" /\ is_recording /\ NoStepRecorded) =>
              /\ recOutcome' = "returned"
              /\ file' = file
              /\ episode_count' = episode_count
              /\ ~is_recording'
       /\ (recOp' = "start_episode" /\ ~is_recording) =>
              /\ is_recording'
              /\ current_episode' = episode_count
       /\ file' # file =>
              GroupNames(file') = GroupNames(file) \cup {episode_count}]_vars

\* episode_0 holds the steps of the second episode started: the first one
\* was ended with no step recorded
C11_Witness ==
    /\ recOp = "end_episode"
    /\ recOutcome = "returned"
    /\ episode_count = 1
    /\ \E g \in file : /\ g.complete
                       /\ g.name = 0
                       /\ g.observations["timestamp"][1] = Sample(2, 1)

\* every buffer of the episode in progress holds n samples, still as lists
Recorded(n) ==
    /\ episode_data.stacked = {}
    /\ \A f \in ObsNames : Len(episode_data.observations[f]) = n
    /\ \A f \in ActNames : Len(episode_data.actions[f]) = n

\* C12: end_episode() on an episode made of N >= 1 successful record_step()
\* calls, unless the storage library raises, returns having added exactly one
\* group to the file, every observation and action dataset of which has
\* length N and whose metadata episode_length is N, and having incremented
\* episode_count by exactly 1.
C12_EpisodeWritten ==
    [][LET N == Len(episode_data.observations["timestamp"])
       IN  (/\ recOp' = "end_episode"
            /\ is_recording
            /\ N >= 1
            /\ Recorded(N)
            /\ recOutcome' # "OSError") =>
               /\ recOutcome' = "returned"
               /\ episode_count' = episode_count + 1
               /\ \E g \in file' :
                      /\ g \notin file
                      /\ file' = file \cup {g}
                      /\ g.complete
                      /\ \A f \in ObsNames : Len(g.observations[f]) = N
                      /\ \A f \in ActNames : Len(g.actions[f]) = N
                      /\ g.metadata.hasLength
                      /\ g.metadata.episode_length = N]_vars

\* an episode of two steps was written by end_episode()
C12_Witness ==
    /\ recOp = "end_episode"
    /\ recOutcome = "returned"
    /\ episode_count >= 1
    /\ \E g \in file : /\ g.complete
                       /\ Len(g.observations["timestamp"]) = 2
                       /\ Len(g.actions["gripper_command"]) = 2
                       /\ g.metadata.episode_length = 2

\* C13: the groups of the file are exactly episode_0 .. episode_(episode_count
\* - 1), and the group an episode in progress will create does not exist yet.
C13_GroupsAreCompletedEpisodes ==
    /\ GroupNames(file) = 0..(episode_count - 1)
    /\ is_recording => current_episode \notin GroupNames(file)

\* C14: no episode whose per-field sequences differ in length is written:
\* in every group written, all observation and action datasets have one
\* length.
C14_UnequalEpisodeRejected ==
    \A g \in file :
        g.complete =>
            /\ \A f \in ObsNames :
                   Len(g.observations[f]) = Len(g.observations["timestamp"])
            /\ \A f \in ActNames :
                   Len(g.actions[f]) = Len(g.observations["timestamp"])

\* the episode (counted from 1 in the order started) whose steps group g holds
EpisodeOf(g) == g.observations["timestamp"][1][1]

\* C19: start_episode() leaves empty buffers and a metadata dict holding its
\* own instruction and task_id and the fps only; every group of the file
\* holds the samples of one episode only, no two groups hold samples of the
\* same episode, and the instruction and task_id of a group are those given
\* to the start_episode() that opened the episode whose samples it holds.
C19_EpisodesIsolated ==
    /\ (recOp = "start_episode" /\ recOutcome = "returned") =>
           /\ NoStepRecorded
           /\ episode_data.stacked = {}
           /\ episode_data.metadata =
                  [NoMetadata EXCEPT !.instruction = Instruction(starts),
                                     !.task_id = TaskId(starts),
                                     !.fps = Fps]
    /\ \A g \in file :
           /\ \A f \in ObsNames :
                  \A i \in 1..Len(g.observations[f]) :
                      g.observations[f][i] = Sample(EpisodeOf(g), i)
           /\ \A f \in ActNames :
                  \A i \in 1..Len(g.actions[f]) :
                      g.actions[f][i][1] = EpisodeOf(g)
           /\ g.complete =>
                  /\ g.metadata.instruction = Instruction(EpisodeOf(g))
                  /\ g.metadata.task_id = TaskId(EpisodeOf(g))
    /\ \A g \in file : \A h \in file :
           g # h => EpisodeOf(g) # EpisodeOf(h)

\* two episodes were written, each with its own steps, instruction and task_id
C19_Witness ==
    /\ episode_count = 2
    /\ \E g \in file : \E h \in file :
           /\ g.complete /\ g.name = 0 /\ EpisodeOf(g) = 1
           /\ g.metadata.instruction = Instruction(1)
           /\ h.complete /\ h.name = 1 /\ EpisodeOf(h) = 2
           /\ h.metadata.task_id = TaskId(2)

----------------------------------------------------------------------------
(* The inference client's serving order, under Spec *)

\* C18 as stated: every infer() that returns is the j-th to return since the
\* latest call that took the query branch and returns the binarized element
\* j - 1 of the chunk held, which changes only when a request is answered;
\* and when the chunk held has at least open_loop_horizon actions, infer()
\* never indexes past its end.
C18_Original ==
    [][clientOp' = "infer" =>
           /\ last'.outcome = "returned" =>
                  /\ last'.index = servedSince' - 1
                  /\ last'.action =
                         Binarize(pred_action_chunk'.actions[servedSince'])
           /\ ~last'.answered => pred_action_chunk' = pred_action_chunk
           /\ (/\ pred_action_chunk'.present
               /\ Len(pred_action_chunk'.actions) >= open_loop_horizon) =>
                  last'.outcome # "IndexError"]_vars

\* C18, amended: every infer() that returns is the j-th to return since the
\* latest call that took the query branch, with j in 1..max(1, H), and
\* returns the binarized element j - 1 of the chunk held, which changes only
\* when a request is answered; and when the chunk held has at least
\* max(1, H) actions, infer() never indexes past its end.
C18_ChunkServedInOrder ==
    [][clientOp' = "infer" =>
           /\ last'.outcome = "returned" =>
                  /\ servedSince' \in 1..Max(1, open_loop_horizon)
                  /\ last'.index = servedSince' - 1
                  /\ last'.action =
                         Binarize(pred_action_chunk'.actions[servedSince'])
           /\ ~last'.answered => pred_action_chunk' = pred_action_chunk
           /\ (/\ pred_action_chunk'.present
               /\ Len(pred_action_chunk'.actions)
                      >= Max(1, open_loop_horizon)) =>
                  last'.outcome # "IndexError"]_vars

\* the last action of a chunk of a horizon of at least 2 was served by a
\* call that sent no request
C18_Witness ==
    /\ clientOp = "infer"
    /\ last.outcome = "returned"
    /\ ~last.refill
    /\ open_loop_horizon >= 2
    /\ servedSince = open_loop_horizon
    /\ last.index = open_loop_horizon - 1
    /\ last.action = Binarize(pred_action_chunk.actions[open_loop_horizon])

----------------------------------------------------------------------------
(* The rubrics' claims, under SpecRubric *)

\* the criteria of the rubric in use
criteriaInUse == CriteriaOf(env)

\* C15: in the result of every evaluation pass, a criterion one of whose
\* declared predecessors is not satisfied in that result is reported not
\* satisfied with progress 0, whatever its own predicate returns on the
\* state evaluated and whatever the pass before reported.
C15_GatedCriteriaForced ==
    rubricOp = "evaluate" =>
        \A i \in 1..Len(criteriaInUse) :
            (\E d \in criteriaInUse[i].deps :
                 ~rubric_result.per[d + 1].satisfied) =>
                /\ ~rubric_result.per[i].satisfied
                /\ rubric_result.per[i].progress = 0

\* the pass before reported success; in this one the first criterion is not
\* satisfied and a criterion that requires it is forced to progress 0
\* although its own predicate is satisfied on the state evaluated
C15_Witness ==
    /\ rubricOp = "evaluate"
    /\ prevSuccess
    /\ ~rubric_result.per[1].satisfied
    /\ \E i \in 1..Len(criteriaInUse) :
           /\ 0 \in criteriaInUse[i].deps
           /\ Predicate(criteriaInUse[i], baseline[i], sim_state[i]).satisfied
           /\ rubric_result.per[i] = Gated

\* C16: the aggregate progress of every evaluation is (the number of
\* criteria satisfied + the progress of the first criterion not satisfied,
\* in declared order) / the number of criteria; it lies in [0, 1]; success
\* holds exactly when every criterion is satisfied, and then the aggregate
\* progress is 1.
C16_AggregateProgress ==
    rubricOp = "evaluate" =>
        LET per       == rubric_result.per
            n         == Len(per)
            satisfied == {i \in 1..n : per[i].satisfied}
            pending   == (1..n) \ satisfied
            first     == CHOOSE i \in pending : \A j \in pending : i <= j
            num       == rubric_result.progress.num
            den       == rubric_result.progress.den
        IN  /\ n >= 1
            /\ den = 100 * n
            /\ num = 100 * Cardinality(satisfied)
                     + (IF pending = {} THEN 0 ELSE per[first].progress)
            /\ 0 <= num /\ num <= den
            /\ rubric_result.success <=> pending = {}
            /\ rubric_result.success => num = den

\* one criterion is satisfied, the next one in declared order is pending
\* with progress 0.5, and a later criterion is satisfied too: progress is
\* (2 + 0.5) / n
C16_Witness ==
    /\ rubricOp = "evaluate"
    /\ rubric_result.per[1].satisfied
    /\ ~rubric_result.per[2].satisfied
    /\ rubric_result.per[2].progress = 50
    /\ rubric_result.per[3].satisfied
    /\ rubric_result.progress.num = 250

\* C17: the rubric of every registered environment satisfies the
\* dependency-graph invariant, and no evaluation of a registered rubric ends
\* in the configuration error.
C17_RegisteredRubricsWellFormed ==
    /\ \A e \in Registered : WellFormed(e.criteria)
    /\ rubric_result.outcome # "ConfigurationError"

\* every criterion of the block-stacking rubric, the last of which has two
\* predecessors, was evaluated and satisfied
C17_Witness ==
    /\ rubricOp = "evaluate"
    /\ env = "DROID-BlockStackKitchen"
    /\ rubric_result.outcome = "returned"
    /\ criteriaInUse[7].deps = {4, 5}
    /\ rubric_result.success

\* criterion i is a lift registered without default_height
InfersBaseline(i) ==
    criteriaInUse[i].kind = "lift" /\ ~criteriaInUse[i].hasDefault

\* C20: for a lift criterion registered without default_height, the pass
\* in which its predicate is first invoked sets its baseline to the height
\* the entity has in that pass, a baseline once set is never changed by a
\* later pass, and every pass that invokes the predicate reports it
\* satisfied exactly when the entity is threshold above that baseline.
C20_LiftBaselineFirstWins ==
    [][rubricOp' = "evaluate" =>
           \A i \in 1..Len(criteriaInUse) :
               InfersBaseline(i) =>
                   /\ baseline[i].set => baseline'[i] = baseline[i]
                   /\ Invoked(criteriaInUse, rubric_result'.per, i) =>
                          /\ baseline'[i].set
                          /\ ~baseline[i].set =>
                                 baseline'[i].height = sim_state'[i].height
                          /\ rubric_result'.per[i].satisfied <=>
                                 (sim_state'[i].height - baseline'[i].height
                                      >= criteriaInUse[i].threshold)]_vars

\* the baseline of the first lift of the food-bussing rubric was taken while
\* the entity was above its resting height; now the entity is threshold
\* above its resting height and the lift is invoked and not satisfied
C20_Witness ==
    /\ rubricOp = "evaluate"
    /\ env = "DROID-FoodBussing"
    /\ InfersBaseline(3)
    /\ baseline[3] = [set |-> TRUE, height |-> 1]
    /\ sim_state[3].height = criteriaInUse[3].threshold
    /\ rubric_result.per[1].satisfied
    /\ ~rubric_result.per[3].satisfied

----------------------------------------------------------------------------
(* The inference client's error paths, under Spec *)

\* C21: infer() ends in the "No action chunk available" ValueError only in
\* a call whose own request was answered with null actions, the chunk then
\* being absent at action selection; every other call ends in a
\* preprocessing or transport error of the request path, or reaches action
\* selection with a chunk, where it returns an action or indexes past the
\* end of the chunk.
C21_ValueErrorNeedsNullAnswer ==
    clientOp = "infer" =>
        /\ last.outcome = "ValueError" =>
               /\ last.answered
               /\ answer = "null"
               /\ ~pred_action_chunk.present
        /\ last.outcome # "ValueError" =>
               \/ last.outcome \in {"PreprocessError", "TransportError"}
               \/ /\ last.outcome \in {"returned", "IndexError"}
                  /\ pred_action_chunk.present

\* after a call that raised since the last reset(), infer() sent a request,
\* was answered with actions and returned one of them
C21_Witness ==
    /\ clientOp = "infer"
    /\ ~allOk
    /\ last.outcome = "returned"
    /\ last.answered
    /\ answer = "actions"
    /\ pred_action_chunk.present

\* C22: the infer() that follows an infer() whose refill did not return
\* an action takes the query branch again, and when it returns an action it
\* has sent a request, was answered, and returns the first action of the
\* chunk of that answer, not one of the chunk held before.
C22_FailedRefillRetried ==
    [][(/\ clientOp = "infer"
        /\ last.refill
        /\ last.outcome # "returned"
        /\ clientOp' = "infer") =>
           /\ last'.refill
           /\ last'.outcome = "returned" =>
                  /\ last'.requested
                  /\ last'.answered
                  /\ last'.index = 0
                  /\ last'.action =
                         Binarize(pred_action_chunk'.actions[1])]_vars

\* a refill request raised while a chunk was held, and the old chunk is
\* still held with the counter at 0
C22_Witness ==
    /\ clientOp = "infer"
    /\ last.refill
    /\ last.requested
    /\ last.outcome = "TransportError"
    /\ last.before >= 1
    /\ actions_from_chunk_completed = 0
    /\ pred_action_chunk.present
    /\ Len(pred_action_chunk.actions) >= 1

----------------------------------------------------------------------------
(* The recorder's lifecycle around end_episode() and save(), under         *)
(* SpecRecorder                                                            *)

\* C23: whenever is_recording is true, every per-field buffer of the episode
\* in progress is still a list that record_step() can append to, also after
\* an end_episode() that raised.
C23_BuffersAppendable ==
    is_recording =>
        /\ ~episode_data.isEmpty
        /\ episode_data.stacked = {}

\* C24: when save() returns the recorder is not recording; if an episode
\* with N >= 1 recorded steps was in progress, exactly one group was added,
\* with episode_length N and without success and progress, and
\* episode_count grew by 1; if an episode with no step was in progress,
\* nothing was written and episode_count is as it was; if no episode was in
\* progress, nothing changed.
C24_SaveFinalizes ==
    [][LET N == Len(episode_data.observations["timestamp"])
       IN  (recOp' = "save" /\ recOutcome' = "returned") =>
               /\ ~is_recording'
               /\ (is_recording /\ N >= 1) =>
                      /\ episode_count' = episode_count + 1
                      /\ \E g \in file' :
                             /\ g \notin file
                             /\ file' = file \cup {g}
                             /\ g.complete
                             /\ g.metadata.hasLength
                             /\ g.metadata.episode_length = N
                             /\ ~g.metadata.hasRubric
               /\ (is_recording /\ N = 0) =>
                      /\ file' = file
                      /\ episode_count' = episode_count
               /\ ~is_recording =>
                      UNCHANGED <<is_recording, episode_count,
                                  current_episode, episode_data, file>>]_vars

----------------------------------------------------------------------------
(* Prerequisites and sinks of the registered rubrics, under SpecRubric *)

\* the positions of the criteria that criterion i requires, directly or
\* through other criteria
RECURSIVE Prerequisites(_, _)
Prerequisites(criteria, i) ==
    UNION {{d + 1} \cup Prerequisites(criteria, d + 1) :
               d \in criteria[i].deps}

\* the positions of the criteria that no criterion requires
Sinks(criteria) ==
    {i \in 1..Len(criteria) :
        \A j \in 1..Len(criteria) : (i - 1) \notin criteria[j].deps}

\* C26: for the rubric of every registered environment, the criteria an
\* evaluation pass reports satisfied contain every direct and indirect
\* prerequisite of each of them, and the pass reports success exactly when
\* every criterion that no other criterion requires is reported satisfied;
\* for DROID-BlockStackKitchen, exactly when criterion 6 is.
C26_SatisfiedClosedAndSinksDecide ==
    rubricOp = "evaluate" =>
        LET per       == rubric_result.per
            satisfied == {i \in 1..Len(per) : per[i].satisfied}
        IN  /\ \A i \in satisfied :
                   Prerequisites(criteriaInUse, i) \subseteq satisfied
            /\ rubric_result.success <=>
                   Sinks(criteriaInUse) \subseteq satisfied
            /\ env = "DROID-BlockStackKitchen" =>
                   /\ Sinks(criteriaInUse) = {7}
                   /\ rubric_result.success <=> per[7].satisfied

\* the block-stacking rubric with the green cube in the tray and the wood
\* cube not reached: the predicate of criterion 6 holds on the state
\* evaluated, and the criterion is reported not satisfied
C26_Witness ==
    /\ rubricOp = "evaluate"
    /\ env = "DROID-BlockStackKitchen"
    /\ rubric_result.per[1].satisfied
    /\ rubric_result.per[3].satisfied
    /\ rubric_result.per[5].satisfied
    /\ ~rubric_result.per[2].satisfied
    /\ Predicate(criteriaInUse[7], baseline[7], sim_state[7]).satisfied
    /\ rubric_result.per[7] = Gated
    /\ ~rubric_result.success

====
